---- MODULE Spec2Model ----
(***************************************************************************)
(* Model of the log-monitor backend (Express + Mongoose + Socket.io):      *)
(*   POST /api/logs   validate, build the document, LogModel.create, then  *)
(*                    io.emit('log', saved) and the 201 response;          *)
(*   GET  /api/stats  three store queries under Promise.all, then the      *)
(*                    anomaly rate and the threat level;                   *)
(*   GET  /api/logs   parse limit/skip, find+count under Promise.all;      *)
(* and of the dashboard (React): its log list is set from a fetch of       *)
(* /api/logs at load and grows by the `log` events of its socket.          *)
(* JSON values are written as the strings of their literals: "undefined"   *)
(* is an absent key, "'true'" is the string 'true', "0" the number 0.      *)
(* Time is in milliseconds, as Date.getTime() gives it.                    *)
(***************************************************************************)
EXTENDS Integers, Sequences, FiniteSets, TLC

VARIABLES
    now,        \* the server clock, new Date().getTime()
    ticks,      \* how often the clock has advanced (bounds the model)
    posts,      \* the POST /api/logs requests received so far, in order of receipt
    store,      \* the documents of the `logs` collection
    emitted,    \* the `log` events io.emit has broadcast, in order
    confirmed,  \* the ids whose create() promise fulfilled, in order of fulfilment
    lreq,       \* the GET /api/logs request being served, or the last one served
    sreq,       \* the GET /api/stats request being served, or the last one served
    agg,        \* inputs and result of the stats computation applied on its own
    client      \* the dashboard in a browser: its socket, its fetch, its list of logs

vars == <<now, ticks, posts, store, emitted, confirmed, lreq, sreq, agg, client>>

-----------------------------------------------------------------------------
(* Bounds of the model *)

MaxPosts == 3
MaxListed == 3
MaxCounted == 3
MaxTicks == 2
MaxInFlight == 1
MaxLen == 3
MaxTotal == 100
MaxCoerced == 1
MaxFed == 3

(* Program constants *)

DayMs == 24 * 60 * 60 * 1000
DefaultLimit == 50
MaxLimit == 200
DefaultSkip == 0
RecentLimit == 100
HighAbove == 10
MediumAbove == 3
FeedLimit == 200

-----------------------------------------------------------------------------
(* JavaScript values and operators *)

Undefined == "undefined"

\* ToBoolean of a JSON value: the falsy literals are undefined, null, false, 0, ''.
Truthy(v) == v \notin {"undefined", "null", "false", "0", "''"}

\* a ?? b
Nullish(v, d) == IF v \in {"undefined", "null"} THEN d ELSE v

\* a || b
OrElse(v, d) == IF Truthy(v) THEN v ELSE d

\* The `log` value of a payload: absent, null, the number 0, or an object with
\* optional members severity, s and msg.
LogAbsent == [kind |-> "undefined", severity |-> Undefined, s |-> Undefined, msg |-> Undefined]
LogNull == [kind |-> "null", severity |-> Undefined, s |-> Undefined, msg |-> Undefined]
LogZero == [kind |-> "number", severity |-> Undefined, s |-> Undefined, msg |-> Undefined]
LogObject(sev, s, msg) == [kind |-> "object", severity |-> sev, s |-> s, msg |-> msg]
LogFalse == [kind |-> "boolean", severity |-> Undefined, s |-> Undefined, msg |-> Undefined]
LogEmpty == [kind |-> "string", severity |-> Undefined, s |-> Undefined, msg |-> Undefined]

\* payload.log?.severity || payload.log?.s || 'I'
Severity(log) == OrElse(log.severity, OrElse(log.s, "'I'"))

RangeOf(s) == {s[i] : i \in 1..Len(s)}

-----------------------------------------------------------------------------
(* POST /api/logs *)

Payload(log, isAnomaly, score, reason, entities, modelUsed) ==
    [log |-> log, is_anomaly |-> isAnomaly, anomaly_score |-> score,
     reason |-> reason, entities |-> entities, model_used |-> modelUsed]

\* Mutant: the check tests for null where it should test for undefined.
InvalidNullOnly(payload) == payload.log.kind = "null"

\* !payload || typeof payload.log === 'undefined'
Invalid(payload) == payload.log.kind = "undefined"

\* The document the handler builds; _id is assigned when the document is made.
MakeDoc(payload, id, time) ==
    [id |-> id,
     timestamp |-> time,
     source |-> "'ai_engine'",
     severity |-> Severity(payload.log),
     log |-> payload.log,
     is_anomaly |-> Truthy(payload.is_anomaly),
     anomaly_score |-> Nullish(payload.anomaly_score, "0"),
     reason |-> OrElse(payload.reason, "''"),
     entities |-> OrElse(payload.entities, "{}"),
     model_used |-> Truthy(payload.model_used)]

\* The schema type Number applied to a value (anomaly_score: Number): numbers stay,
\* booleans and numeric strings become numbers, the empty string becomes null, any
\* other string is a cast error, which fails validation.
CastError == "CastError"

CastNumber(v) ==
    CASE v \in {"undefined", "null"} -> v
      [] v = "''" -> "null"
      [] v = "true" -> "1"
      [] v = "false" -> "0"
      [] v = "'0'" -> "0"
      [] v = "'5'" -> "5"
      [] v \in {"0", "1", "5"} -> v
      [] OTHER -> CastError

\* The schema option minimize, on by default: a Mixed path holding an empty object is
\* left out of the stored document and of its JSON form.
EmptyObject == [kind |-> "object", severity |-> Undefined, s |-> Undefined, msg |-> Undefined]

Minimize(doc) ==
    [doc EXCEPT !.log = IF @ = EmptyObject THEN LogAbsent ELSE @,
                !.entities = IF @ = "{}" THEN Undefined ELSE @]

\* The document LogModel.create(doc) stores and fulfils with: doc cast to the schema
\* and minimized.
Saved(doc) == Minimize([doc EXCEPT !.anomaly_score = CastNumber(@)])

NoDoc == MakeDoc(Payload(LogAbsent, Undefined, Undefined, Undefined, Undefined, Undefined), 0, 0)

\* io.emit('log', saved)
Emit(events, saved) == Append(events, saved)

\* An insert landed: every request already answered 201 now has a later insert
\* (bookkeeping of the model, read by the properties only).
MarkLater(ps) ==
    [r \in 1..Len(ps) |->
        IF ps[r].status = 201 THEN [ps[r] EXCEPT !.later = TRUE] ELSE ps[r]]

\* The handler body up to LogModel.create(doc): a 400 at once, or a write in flight.
PostRequest(payload) ==
    /\ LET r == Len(posts) + 1 IN
       posts' = Append(posts,
           IF Invalid(payload)
           THEN [payload |-> payload, doc |-> NoDoc, phase |-> "done", status |-> 400,
                 body |-> "{error}", raised |-> FALSE, later |-> FALSE]
           ELSE [payload |-> payload, doc |-> MakeDoc(payload, r, now),
                 phase |-> "creating", status |-> 0, body |-> "", raised |-> FALSE,
                 later |-> FALSE])
    /\ UNCHANGED <<now, ticks, store, emitted, confirmed, lreq, sreq, agg, client>>

\* The document passes the schema and the store applies the insert: the saved
\* document is now visible to every query. A document that fails the cast is never
\* written (create() rejects).
StoreInsert(r) ==
    /\ r \in 1..Len(posts)
    /\ posts[r].phase = "creating"
    /\ CastNumber(posts[r].doc.anomaly_score) # CastError
    /\ store' = store \cup {Saved(posts[r].doc)}
    /\ posts' = [MarkLater(posts) EXCEPT ![r].phase = "written",
                                         ![r].doc = Saved(posts[r].doc)]
    /\ sreq' = IF sreq.phase = "idle" THEN sreq ELSE [sreq EXCEPT !.dirty = TRUE]
    /\ lreq' = IF lreq.phase = "idle" THEN lreq ELSE [lreq EXCEPT !.dirty = TRUE]
    /\ UNCHANGED <<now, ticks, emitted, confirmed, agg, client>>

\* Mutant: the handler emits and answers without waiting for create() to fulfil.
ThenCallbackEarly(r) ==
    /\ r \in 1..Len(posts)
    /\ posts[r].phase = "creating"
    /\ confirmed' = Append(confirmed, r)
    /\ emitted' = Emit(emitted, posts[r].doc)
    /\ posts' = [posts EXCEPT ![r].phase = "done", ![r].status = 201,
                              ![r].body = "{id, ok}"]
    /\ UNCHANGED <<now, ticks, store, lreq, sreq, agg, client>>

\* create() fulfils and the .then callback runs: io.emit('log', saved), then the
\* 201 response.
ThenCallback(r) ==
    /\ r \in 1..Len(posts)
    /\ posts[r].phase = "written"
    /\ confirmed' = Append(confirmed, r)
    /\ emitted' = Emit(emitted, posts[r].doc)
    /\ posts' = [posts EXCEPT ![r].phase = "done", ![r].status = 201,
                              ![r].body = "{id, ok}"]
    /\ UNCHANGED <<now, ticks, store, lreq, sreq, agg, client>>

\* create() fulfils and io.emit throws inside the .then callback: nothing is
\* broadcast and no response is sent; the promise .then returned rejects, and its
\* .catch callback runs in a later job, after the callbacks already queued.
ThenEmitThrows(r) ==
    /\ r \in 1..Len(posts)
    /\ posts[r].phase = "written"
    /\ confirmed' = Append(confirmed, r)
    /\ posts' = [posts EXCEPT ![r].phase = "rejected", ![r].raised = TRUE]
    /\ UNCHANGED <<now, ticks, store, emitted, lreq, sreq, agg, client>>

\* The .catch callback answers 500: create() rejected (the store refused the write),
\* or the .then callback threw.
CatchCallback(r) ==
    /\ r \in 1..Len(posts)
    /\ posts[r].phase \in {"creating", "rejected"}
    /\ posts' = [posts EXCEPT ![r].phase = "done", ![r].status = 500,
                              ![r].body = "{error}"]
    /\ UNCHANGED <<now, ticks, store, emitted, confirmed, lreq, sreq, agg, client>>

\* The clock advances by d milliseconds.
Tick(d) ==
    /\ now' = now + d
    /\ ticks' = ticks + 1
    /\ UNCHANGED <<posts, store, emitted, confirmed, lreq, sreq, agg, client>>

-----------------------------------------------------------------------------
(* GET /api/logs *)

\* A query parameter: absent, or the text of its value as a sequence of characters.
NoParam == [present |-> FALSE, text |-> <<>>]
Param(text) == [present |-> TRUE, text |-> text]

\* String(v): an absent parameter is the value undefined.
StringOf(raw) ==
    IF raw.present THEN raw.text ELSE <<"u", "n", "d", "e", "f", "i", "n", "e", "d">>

DigitValue ==
    [c \in {"0", "1", "2", "3", "4", "5", "6", "7", "8", "9"} |->
        CASE c = "0" -> 0 [] c = "1" -> 1 [] c = "2" -> 2 [] c = "3" -> 3 [] c = "4" -> 4
          [] c = "5" -> 5 [] c = "6" -> 6 [] c = "7" -> 7 [] c = "8" -> 8 [] c = "9" -> 9]

IsDigit(c) == c \in DOMAIN DigitValue

NaN == [nan |-> TRUE, n |-> 0]
Num(n) == [nan |-> FALSE, n |-> n]

\* The white space and line terminators parseInt skips: space, tab, line feed,
\* carriage return, form feed, and those written here by their code points (vertical
\* tab, no-break space, byte order mark, line and paragraph separator, the other
\* space separators).
WhiteSpace ==
    {" ", "\t", "\n", "\r", "\f", "U+000B", "U+00A0", "U+FEFF", "U+2028", "U+2029",
     "U+1680", "U+2000", "U+2001", "U+2002", "U+2003", "U+2004", "U+2005", "U+2006",
     "U+2007", "U+2008", "U+2009", "U+200A", "U+202F", "U+205F", "U+3000"}

RECURSIVE TrimStart(_)
TrimStart(s) == IF s # <<>> /\ Head(s) \in WhiteSpace THEN TrimStart(Tail(s)) ELSE s

\* The value of the longest prefix of digits of s, acc being the value read so far.
RECURSIVE ReadDigits(_, _)
ReadDigits(s, acc) ==
    IF s # <<>> /\ IsDigit(Head(s))
    THEN ReadDigits(Tail(s), acc * 10 + DigitValue[Head(s)])
    ELSE acc

\* parseInt(raw, 10): leading white space and line terminators, an optional sign, then decimal digits up
\* to the first character that is none; NaN when there is no digit.
ParseInt(raw) ==
    LET t == TrimStart(StringOf(raw))
        signed == t # <<>> /\ Head(t) \in {"-", "+"}
        sign == IF t # <<>> /\ Head(t) = "-" THEN -1 ELSE 1
        d == IF signed THEN Tail(t) ELSE t
    IN  IF d # <<>> /\ IsDigit(Head(d)) THEN Num(sign * ReadDigits(d, 0)) ELSE NaN

\* x || d for a number x: NaN and 0 are falsy.
NumberOr(x, d) == IF x.nan \/ x.n = 0 THEN d ELSE x.n

Min(a, b) == IF a < b THEN a ELSE b
Abs(a) == IF a < 0 THEN -a ELSE a

\* Math.min(parseInt(req.query.limit, 10) || 50, 200)
EffectiveLimit(raw) == Min(NumberOr(ParseInt(raw), DefaultLimit), MaxLimit)

\* parseInt(req.query.skip, 10) || 0
EffectiveSkip(raw) == NumberOr(ParseInt(raw), DefaultSkip)

MaxTimestamp(S) == {d \in S : \A e \in S : e.timestamp <= d.timestamp}

\* sort({timestamp: -1}): every order of S newest first; the store leaves the order of
\* documents with equal timestamps open.
RECURSIVE SortedOrders(_)
SortedOrders(S) ==
    IF S = {} THEN {<<>>}
    ELSE UNION {{<<d>> \o rest : rest \in SortedOrders(S \ {d})} : d \in MaxTimestamp(S)}

\* .skip(skip).limit(limit) on a cursor: the driver sends a negative limit as its
\* absolute value (a single batch).
Page(order, skip, limit) ==
    LET first == skip + 1
        last == Min(Len(order), skip + Abs(limit))
    IN  IF first > last THEN <<>> ELSE SubSeq(order, first, last)

IdleLogs ==
    [phase |-> "idle", query |-> [limit |-> NoParam, skip |-> NoParam],
     limit |-> 0, skip |-> 0, findDone |-> FALSE, countDone |-> FALSE,
     logs |-> <<>>, total |-> 0, status |-> 0,
     answered |-> {}, dirty |-> FALSE, storeFailed |-> FALSE]

\* The ids already answered 201 with no insert since.
Answered == {r \in 1..Len(posts) : posts[r].status = 201 /\ ~posts[r].later}

\* The handler body up to Promise.all: both queries are issued.
LogsRequest(query) ==
    /\ lreq.phase # "open"
    /\ lreq' = [IdleLogs EXCEPT !.phase = "open", !.query = query,
                                !.limit = EffectiveLimit(query.limit),
                                !.skip = EffectiveSkip(query.skip),
                                !.answered = Answered]
    /\ UNCHANGED <<now, ticks, posts, store, emitted, confirmed, sreq, agg, client>>

\* find().sort().skip().limit().lean() is answered; the store rejects a negative
\* skip, which rejects Promise.all and runs the catch block.
LogsFind ==
    /\ lreq.phase = "open"
    /\ ~lreq.findDone
    /\ IF lreq.skip < 0
       THEN lreq' = [lreq EXCEPT !.phase = "done", !.status = 500,
                                 !.logs = <<>>, !.total = 0]
       ELSE \E order \in SortedOrders(store) :
               lreq' = [lreq EXCEPT !.findDone = TRUE,
                                    !.logs = Page(order, lreq.skip, lreq.limit)]
    /\ UNCHANGED <<now, ticks, posts, store, emitted, confirmed, sreq, agg, client>>

\* countDocuments() is answered.
LogsCount ==
    /\ lreq.phase = "open"
    /\ ~lreq.countDone
    /\ lreq' = [lreq EXCEPT !.countDone = TRUE, !.total = Cardinality(store)]
    /\ UNCHANGED <<now, ticks, posts, store, emitted, confirmed, sreq, agg, client>>

\* Promise.all fulfils: res.json({logs, total}).
LogsRespond ==
    /\ lreq.phase = "open"
    /\ lreq.findDone
    /\ lreq.countDone
    /\ lreq' = [lreq EXCEPT !.phase = "done", !.status = 200]
    /\ UNCHANGED <<now, ticks, posts, store, emitted, confirmed, sreq, agg, client>>

\* A query fails in the store: the catch block answers 500.
LogsFail ==
    /\ lreq.phase = "open"
    /\ lreq' = [lreq EXCEPT !.phase = "done", !.status = 500,
                            !.logs = <<>>, !.total = 0, !.storeFailed = TRUE]
    /\ UNCHANGED <<now, ticks, posts, store, emitted, confirmed, sreq, agg, client>>

-----------------------------------------------------------------------------
(* GET /api/stats *)

\* Mutant: $gt where the query has $gte.
WindowStrict(S, since) == {d \in S : d.timestamp > since}

\* {timestamp: {$gte: since}}
Window(S, since) == {d \in S : d.timestamp >= since}

\* {timestamp: {$gte: since}, is_anomaly: true}
AnomaliesIn(S, since) == {d \in Window(S, since) : d.is_anomaly}

\* Mutant: >= where the code has >.
RateAtLeast(total, anomalies, k) == total > 0 /\ anomalies * 100 >= k * total

\* anomalyRate > k, for anomalyRate = total > 0 ? (anomalies / total) * 100 : 0.
\* The quotient is kept exact: for total <= 1500 the double the code computes falls
\* on the same side of 10, 3 and 0 as the exact rate.
RateAbove(total, anomalies, k) == total > 0 /\ anomalies * 100 > k * total

\* anomalyRate > 10 ? 'high' : anomalyRate > 3 ? 'medium' : anomalyRate > 0 ? 'low' : 'none'
ThreatLevel(total, anomalies) ==
    IF RateAbove(total, anomalies, HighAbove) THEN "high"
    ELSE IF RateAbove(total, anomalies, MediumAbove) THEN "medium"
    ELSE IF RateAbove(total, anomalies, 0) THEN "low"
    ELSE "none"

\* Math.round(anomalyRate * 100) / 100, in hundredths of a percent: half rounds up.
\* (Exact for total < 160; from 160 on the double product can fall just below a
\* half that the exact rate reaches.)
RoundedRate(total, anomalies) ==
    IF total > 0 THEN (2 * anomalies * 10000 + total) \div (2 * total) ELSE 0

\* recentAnomalies.map(a => ({timestamp, msg: a.log?.msg, reason, score}))
Project(docs) ==
    [i \in 1..Len(docs) |->
        [timestamp |-> docs[i].timestamp, msg |-> docs[i].log.msg,
         reason |-> docs[i].reason, score |-> docs[i].anomaly_score]]

IdleStats ==
    [phase |-> "idle", oneDayAgo |-> 0,
     totalDone |-> FALSE, anomaliesDone |-> FALSE, recentDone |-> FALSE,
     total |-> 0, anomalies |-> 0, recent |-> <<>>,
     anomalyRate |-> 0, threatLevel |-> "none", recentAnomalies |-> <<>>,
     status |-> 0, at |-> 0, dirty |-> FALSE]

\* The handler body up to Promise.all: now and oneDayAgo are fixed, the three
\* queries are issued.
StatsRequest ==
    /\ sreq.phase # "open"
    /\ sreq' = [IdleStats EXCEPT !.phase = "open", !.oneDayAgo = now - DayMs,
                                 !.at = now]
    /\ UNCHANGED <<now, ticks, posts, store, emitted, confirmed, lreq, agg, client>>

\* countDocuments({timestamp: {$gte: oneDayAgo}}) is answered.
StatsCountTotal ==
    /\ sreq.phase = "open"
    /\ ~sreq.totalDone
    /\ sreq' = [sreq EXCEPT !.totalDone = TRUE,
                            !.total = Cardinality(Window(store, sreq.oneDayAgo))]
    /\ UNCHANGED <<now, ticks, posts, store, emitted, confirmed, lreq, agg, client>>

\* countDocuments({timestamp: {$gte: oneDayAgo}, is_anomaly: true}) is answered.
StatsCountAnomalies ==
    /\ sreq.phase = "open"
    /\ ~sreq.anomaliesDone
    /\ sreq' = [sreq EXCEPT !.anomaliesDone = TRUE,
                            !.anomalies = Cardinality(AnomaliesIn(store, sreq.oneDayAgo))]
    /\ UNCHANGED <<now, ticks, posts, store, emitted, confirmed, lreq, agg, client>>

\* find({...is_anomaly: true}).sort({timestamp: -1}).limit(100).lean() is answered.
StatsFindRecent ==
    /\ sreq.phase = "open"
    /\ ~sreq.recentDone
    /\ \E order \in SortedOrders(AnomaliesIn(store, sreq.oneDayAgo)) :
          sreq' = [sreq EXCEPT !.recentDone = TRUE,
                               !.recent = Page(order, 0, RecentLimit)]
    /\ UNCHANGED <<now, ticks, posts, store, emitted, confirmed, lreq, agg, client>>

\* Promise.all fulfils: the rate, the threat level and the response.
StatsRespond ==
    /\ sreq.phase = "open"
    /\ sreq.totalDone
    /\ sreq.anomaliesDone
    /\ sreq.recentDone
    /\ sreq' = [sreq EXCEPT !.phase = "done", !.status = 200,
                            !.anomalyRate = RoundedRate(sreq.total, sreq.anomalies),
                            !.threatLevel = ThreatLevel(sreq.total, sreq.anomalies),
                            !.recentAnomalies = Project(sreq.recent)]
    /\ UNCHANGED <<now, ticks, posts, store, emitted, confirmed, lreq, agg, client>>

\* A query fails in the store: the catch block answers 500.
StatsFail ==
    /\ sreq.phase = "open"
    /\ sreq' = [IdleStats EXCEPT !.phase = "done", !.status = 500,
                                 !.oneDayAgo = sreq.oneDayAgo, !.at = sreq.at,
                                 !.dirty = sreq.dirty]
    /\ UNCHANGED <<now, ticks, posts, store, emitted, confirmed, lreq, agg, client>>

\* The rate and threat level of lines 297-304 applied to a pair of counts.
IdleAgg == [total |-> 0, anomalies |-> 0, anomalyRate |-> 0, threatLevel |-> "none",
            done |-> FALSE]

ComputeStats ==
    /\ ~agg.done
    /\ agg' = [agg EXCEPT !.done = TRUE,
                          !.anomalyRate = RoundedRate(agg.total, agg.anomalies),
                          !.threatLevel = ThreatLevel(agg.total, agg.anomalies)]
    /\ UNCHANGED <<now, ticks, posts, store, emitted, confirmed, lreq, sreq, client>>

-----------------------------------------------------------------------------
(* The dashboard: App and LogFeed *)

\* useState([]), useState(true); no socket and no fetch before the effects run.
IdleClient ==
    [phase |-> "init", socket |-> "none", fetch |-> "none", loading |-> TRUE,
     delivered |-> 0, logs |-> <<>>]

\* fetch(`${BACKEND_URL}/api/logs?limit=50`)
FetchQuery == [limit |-> Param(<<"5", "0">>), skip |-> NoParam]

\* list.slice(0, n)
Take(list, n) == SubSeq(list, 1, Min(Len(list), n))

\* The page loads: LogFeed's effect creates the socket and registers the handler of
\* `log`, App's effect sends the fetch of the log list. The socket is not connected
\* yet.
Mount ==
    /\ client.phase = "init"
    /\ client' = [client EXCEPT !.phase = "mounted", !.socket = "connecting",
                                !.fetch = "pending"]
    /\ UNCHANGED <<now, ticks, posts, store, emitted, confirmed, lreq, sreq, agg>>

\* The handshake of the socket completes: the events emitted from now on reach the
\* handler, those emitted before do not.
Connect ==
    /\ client.socket = "connecting"
    /\ client' = [client EXCEPT !.socket = "connected", !.delivered = Len(emitted)]
    /\ UNCHANGED <<now, ticks, posts, store, emitted, confirmed, lreq, sreq, agg>>

\* The socket delivers the next `log` event, in the order of emission:
\* setLogs((prev) => [log, ...prev].slice(0, 200)).
OnLog ==
    /\ client.socket = "connected"
    /\ client.delivered < Len(emitted)
    /\ client' = [client EXCEPT
                     !.delivered = @ + 1,
                     !.logs = Take(<<emitted[client.delivered + 1]>> \o @, FeedLimit)]
    /\ UNCHANGED <<now, ticks, posts, store, emitted, confirmed, lreq, sreq, agg>>

\* The response of the fetch arrives: with res.ok, setLogs(data || []); without, the
\* list stays as it is; finally setLoading(false).
FetchLogs ==
    /\ client.phase = "mounted"
    /\ client.fetch = "pending"
    /\ lreq.phase = "done"
    /\ client' = IF lreq.status = 200
                  THEN [client EXCEPT !.fetch = "ok", !.loading = FALSE,
                                      !.logs = lreq.logs]
                  ELSE [client EXCEPT !.fetch = "failed", !.loading = FALSE]
    /\ UNCHANGED <<now, ticks, posts, store, emitted, confirmed, lreq, sreq, agg>>

\* fetch rejects (the network failed): console.warn, the list stays as it is;
\* finally setLoading(false).
FetchThrows ==
    /\ client.phase = "mounted"
    /\ client.fetch = "pending"
    /\ client' = [client EXCEPT !.fetch = "failed", !.loading = FALSE]
    /\ UNCHANGED <<now, ticks, posts, store, emitted, confirmed, lreq, sreq, agg>>

\* The page goes away: the cleanup of LogFeed's effect runs socket.disconnect(); no
\* event and no fetch response changes the list any more.
Unmount ==
    /\ client.phase = "mounted"
    /\ client' = [client EXCEPT !.phase = "unmounted", !.socket = "closed"]
    /\ UNCHANGED <<now, ticks, posts, store, emitted, confirmed, lreq, sreq, agg>>

-----------------------------------------------------------------------------
(* Inputs *)

\* Bodies the scorer may post: `log` absent, null, 0, or an object; flags given as
\* booleans, as other truthy or falsy values, or left out.
IngestPayloads ==
    {Payload(LogAbsent, "true", "5", Undefined, Undefined, "true"),
     Payload(LogNull, Undefined, Undefined, Undefined, Undefined, Undefined),
     Payload(LogZero, "'true'", "null", "''", Undefined, "0"),
     Payload(LogObject("'E'", Undefined, "'auth failed'"), "false", "5", "'slow'", "{}", "true")}

\* Scored records, anomalous or not.
StatsPayloads ==
    {Payload(LogObject(Undefined, "'W'", "'auth failed'"), "true", "5", "'auth'", Undefined, "true"),
     Payload(LogObject(Undefined, Undefined, Undefined), "false", "0", Undefined, Undefined, "false")}

\* Bodies with `log` present.
ListedPayloads ==
    {Payload(LogNull, Undefined, Undefined, Undefined, Undefined, Undefined),
     Payload(LogZero, "'true'", "null", "''", Undefined, "0")}

\* Query strings of the dashboard and of a careless client.
SampleQueries ==
    {[limit |-> l, skip |-> k] :
        l \in {NoParam, Param(<<"2">>), Param(<<"-", "1">>)},
        k \in {NoParam, Param(<<"1">>), Param(<<"-", "1">>)}}

Alphabet == {"-", "0", "5", "a", " ", "\t"}

RECURSIVE Texts(_)
Texts(n) ==
    IF n = 0 THEN {<<>>}
    ELSE LET shorter == Texts(n - 1) IN
         shorter \cup {Append(t, c) : t \in shorter, c \in Alphabet}

\* Every parameter text of at most MaxLen characters, and the absent parameter.
RawParams == {NoParam} \cup {Param(t) : t \in Texts(MaxLen)}

AllQueries ==
    {[limit |-> l, skip |-> NoParam] : l \in RawParams}
        \cup {[limit |-> NoParam, skip |-> k] : k \in RawParams}

\* What a client may send for a flag: booleans, strings (the string 'false' and the
\* string '0' are truthy), numbers, null, or nothing.
Flags == {"true", "false", "'true'", "'false'", "'0'", "''", "0", "1", "null", Undefined}

\* What a client may send for the score: a number, a string (numeric, empty or
\* neither), a boolean, null, or nothing.
Scores == {"5", "0", "'5'", "''", "'abc'", "true", "null", Undefined}

\* What a client may send for `log`: an object, the empty one included, or a scalar,
\* falsy ones included.
LogValues ==
    {LogObject("'E'", Undefined, "'auth failed'"), EmptyObject, LogNull, LogZero, LogFalse,
     LogEmpty}

\* Bodies with `log` present: every flag value for is_anomaly and for model_used,
\* and every score with every `log`.
CoercePayloads ==
    {Payload(LogObject(Undefined, "'W'", "'slow query'"), f, "5", "'slow'", "{}", "false") : f \in Flags}
        \cup {Payload(LogObject(Undefined, "'W'", "'slow query'"), "false", "5", "'slow'", "{}", g) : g \in Flags}
        \cup {Payload(l, "'true'", sc, Undefined, Undefined, "true") : l \in LogValues, sc \in Scores}

\* Every pair of counts with 0 <= anomalies <= total <= MaxTotal.
CountPairs == {<<t, a>> \in (0..MaxTotal) \X (0..MaxTotal) : a <= t}

-----------------------------------------------------------------------------
(* Specifications *)

\* The POST requests not yet answered.
InFlight == Cardinality({r \in 1..Len(posts) : posts[r].phase # "done"})

Init ==
    /\ now = DayMs
    /\ ticks = 0
    /\ posts = <<>>
    /\ store = {}
    /\ emitted = <<>>
    /\ confirmed = <<>>
    /\ lreq = IdleLogs
    /\ sreq = IdleStats
    /\ agg = IdleAgg
    /\ client = IdleClient

\* Ingestion and broadcast: requests served concurrently, a store that may refuse
\* a write, an emit that may throw.
Next ==
    \/ Len(posts) < MaxPosts /\ \E p \in IngestPayloads : PostRequest(p)
    \/ \E r \in 1..Len(posts) : StoreInsert(r)
    \/ \E r \in 1..Len(posts) : ThenCallback(r)
    \/ \E r \in 1..Len(posts) : ThenEmitThrows(r)
    \/ \E r \in 1..Len(posts) : CatchCallback(r)

Spec == Init /\ [][Next]_vars

\* Ingestion, at most MaxInFlight requests at a time and over a day and more, while
\* one log listing is served, up to its response. The listing only
\* reads, so the requests served before it leave no trace in the state.
NextLogs ==
    /\ lreq.phase # "done"
    /\ \/ /\ Len(posts) < MaxListed
          /\ InFlight < MaxInFlight
          /\ \E p \in ListedPayloads : PostRequest(p)
       \/ \E r \in 1..Len(posts) : StoreInsert(r)
       \/ \E r \in 1..Len(posts) : ThenCallback(r)
       \/ \E r \in 1..Len(posts) : ThenEmitThrows(r)
       \/ \E r \in 1..Len(posts) : CatchCallback(r)
       \/ ticks < MaxTicks /\ \E d \in {1, DayMs} : Tick(d)
       \/ \E q \in SampleQueries : LogsRequest(q)
       \/ LogsFind
       \/ LogsCount
       \/ LogsRespond
       \/ LogsFail

SpecLogs == Init /\ [][NextLogs]_vars

\* Ingestion, at most MaxInFlight requests at a time and over a day and more,
\* while one statistics request is served, up to
\* its response. The request only reads.
NextStats ==
    /\ sreq.phase # "done"
    /\ \/ /\ Len(posts) < MaxCounted
          /\ InFlight < MaxInFlight
          /\ \E p \in StatsPayloads : PostRequest(p)
       \/ \E r \in 1..Len(posts) : StoreInsert(r)
       \/ \E r \in 1..Len(posts) : ThenCallback(r)
       \/ ticks < MaxTicks /\ \E d \in {1, DayMs} : Tick(d)
       \/ StatsRequest
       \/ StatsCountTotal
       \/ StatsCountAnomalies
       \/ StatsFindRecent
       \/ StatsRespond
       \/ StatsFail

SpecStats == Init /\ [][NextStats]_vars

\* The listing's parameters alone: every short text for one parameter at a time.
NextParams ==
    \/ \E q \in AllQueries : LogsRequest(q)
    \/ LogsFind
    \/ LogsCount
    \/ LogsRespond
    \/ LogsFail

SpecParams == Init /\ [][NextParams]_vars

\* Ingestion of bodies with every kind of flag, score and `log`, one request at a
\* time, each answered 201 or, when create() rejects (a score that fails the cast, a
\* write the store refuses), 500; and one listing without parameters, up to its
\* response.
NextCoerce ==
    /\ lreq.phase # "done"
    /\ \/ /\ Len(posts) < MaxCoerced
          /\ InFlight < MaxInFlight
          /\ \E p \in CoercePayloads : PostRequest(p)
       \/ \E r \in 1..Len(posts) : StoreInsert(r)
       \/ \E r \in 1..Len(posts) : ThenCallback(r)
       \/ \E r \in 1..Len(posts) : CatchCallback(r)
       \/ LogsRequest([limit |-> NoParam, skip |-> NoParam])
       \/ LogsFind
       \/ LogsCount
       \/ LogsRespond

SpecCoerce == Init /\ [][NextCoerce]_vars

\* Ingestion, at most MaxInFlight requests at a time, with a store that takes every
\* write and an emit that returns, while one dashboard loads, its fetch of the list
\* served once, and possibly goes away.
NextClient ==
    \/ /\ Len(posts) < MaxFed
       /\ InFlight < MaxInFlight
       /\ \E p \in ListedPayloads : PostRequest(p)
    \/ \E r \in 1..Len(posts) : StoreInsert(r)
    \/ \E r \in 1..Len(posts) : ThenCallback(r)
    \/ Mount
    \/ Connect
    \/ client.fetch = "pending" /\ lreq.phase = "idle" /\ LogsRequest(FetchQuery)
    \/ LogsFind
    \/ LogsCount
    \/ LogsRespond
    \/ LogsFail
    \/ OnLog
    \/ FetchLogs
    \/ FetchThrows
    \/ Unmount

SpecClient == Init /\ [][NextClient]_vars

\* The rate and threat level alone, over every pair of counts.
InitThreat ==
    /\ now = DayMs
    /\ ticks = 0
    /\ posts = <<>>
    /\ store = {}
    /\ emitted = <<>>
    /\ confirmed = <<>>
    /\ lreq = IdleLogs
    /\ sreq = IdleStats
    /\ \E pair \in CountPairs :
          agg = [IdleAgg EXCEPT !.total = pair[1], !.anomalies = pair[2]]
    /\ client = IdleClient

NextThreat == ComputeStats

SpecThreat == InitThreat /\ [][NextThreat]_vars

-----------------------------------------------------------------------------
(* Properties *)

EmittedIds == [i \in 1..Len(emitted) |-> emitted[i].id]

\* C1: every `log` event carries a record that is already in the store, and a
\* request whose write the store refused is answered 500 and never gets an event.
C1_BroadcastAfterPersist ==
    /\ \A i \in 1..Len(emitted) : emitted[i] \in store
    /\ \A r \in 1..Len(posts) :
          (posts[r].phase = "done" /\ posts[r].payload.log.kind # "undefined" /\ posts[r].doc \notin store)
              => (posts[r].status = 500 /\ r \notin RangeOf(EmittedIds))

\* An event was broadcast for one request, and the store refused another's write.
C1_Witness ==
    \E r1, r2 \in 1..Len(posts) :
        /\ posts[r1].doc \in RangeOf(emitted)
        /\ posts[r1].status = 201
        /\ posts[r2].payload.log.kind # "undefined"
        /\ posts[r2].status = 500
        /\ posts[r2].doc \notin store

\* C2: a body without the `log` key is answered 400 with an error body at once; no
\* record is stored and no event is emitted for it.
C2_MissingLogRejected ==
    \A r \in 1..Len(posts) :
        posts[r].payload.log.kind = "undefined"
            => /\ posts[r].phase = "done"
               /\ posts[r].status = 400
               /\ posts[r].body = "{error}"
               /\ \A d \in store : d.id # r
               /\ r \notin RangeOf(EmittedIds)
               /\ r \notin RangeOf(confirmed)

\* A body without `log` was rejected while other records were stored and broadcast.
C2_Witness ==
    /\ \E r \in 1..Len(posts) : posts[r].payload.log.kind = "undefined" /\ posts[r].status = 400
    /\ store # {}
    /\ emitted # <<>>

\* C3: once the store holds the record of a request, that request is answered 201
\* {id, ok: true}, whatever the emit step does; 500 only when it was not stored.
C3_BroadcastNeverFailsWrite ==
    \A r \in 1..Len(posts) :
        posts[r].phase = "done"
            => /\ posts[r].doc \in store => (posts[r].status = 201 /\ posts[r].body = "{id, ok}")
               /\ posts[r].status = 500 => posts[r].doc \notin store

\* C4: the `log` events are the writes the store confirmed (those whose create()
\* fulfilled), one event each, in the order of confirmation.
C4_OneEventPerConfirmedWrite == EmittedIds = confirmed

\* C5: a body with `log` present (null and 0 included) whose write the store took is
\* answered 201, and a listing without parameters requested after that answer, with
\* no insert in between, contains the record.
C5_AcceptedAndListed ==
    /\ \A r \in 1..Len(posts) :
          (posts[r].phase = "done" /\ posts[r].payload.log.kind # "undefined" /\ posts[r].doc \in store)
              => posts[r].status = 201
    /\ (lreq.phase = "done" /\ lreq.status = 200
            /\ lreq.query = [limit |-> NoParam, skip |-> NoParam])
          => \A r \in lreq.answered : posts[r].doc \in RangeOf(lreq.logs)

\* C6: the threat level follows the exact rate anomalies/total*100 by the
\* breakpoints 10, 3 and 0, each exclusive below; no records gives rate 0 and none.
C6_ThreatBreakpoints ==
    agg.done =>
        LET t == agg.total
            a == agg.anomalies
            level == agg.threatLevel
        IN  IF t = 0 THEN level = "none" /\ agg.anomalyRate = 0
            ELSE /\ level = "high" <=> 100 * a > 10 * t
                 /\ level = "medium" <=> (100 * a > 3 * t /\ 100 * a <= 10 * t)
                 /\ level = "low" <=> (a > 0 /\ 100 * a <= 3 * t)
                 /\ level = "none" <=> a = 0

\* A rate of exactly 10 was classified, as medium.
C6_Witness ==
    /\ agg.done
    /\ agg.total > 0
    /\ 100 * agg.anomalies = 10 * agg.total
    /\ agg.threatLevel = "medium"

\* C7: when no write lands while the statistics are computed, total is the number
\* of stored records with timestamp >= now - 24h and anomalies the number of those
\* flagged; older records count in neither; ten records, two flagged, give rate 20
\* and level high; and serving the request changes no stored record.
C7_StatsOverWindow ==
    /\ [](/\ (sreq.phase = "done" /\ sreq.status = 200 /\ ~sreq.dirty)
               => /\ sreq.total =
                        Cardinality({d \in store : d.timestamp >= sreq.at - DayMs})
                  /\ sreq.anomalies =
                        Cardinality({d \in store :
                                        d.timestamp >= sreq.at - DayMs /\ d.is_anomaly})
                  /\ sreq.threatLevel = ThreatLevel(sreq.total, sreq.anomalies)
          /\ ThreatLevel(10, 2) = "high"
          /\ RoundedRate(10, 2) = 2000)
    /\ [][(sreq' # sreq /\ posts' = posts) => store' = store]_vars

\* Statistics were answered over a store that holds a record older than 24h, a
\* record exactly 24h old and a flagged record inside the window.
C7_Witness ==
    /\ sreq.phase = "done"
    /\ sreq.status = 200
    /\ ~sreq.dirty
    /\ \E d \in store : d.timestamp < sreq.at - DayMs
    /\ \E d \in store : d.timestamp = sreq.at - DayMs
    /\ sreq.anomalies >= 1
    /\ sreq.total > sreq.anomalies

\* C8: the limit the listing uses is a positive integer of at most 200: above 200
\* it is 200; absent, non-numeric, zero or negative it is the default 50.
C8_LimitPositiveAtMost200 ==
    lreq.phase # "idle" =>
        LET n == ParseInt(lreq.query.limit) IN
        /\ lreq.limit \in 1..MaxLimit
        /\ lreq.limit = IF n.nan \/ n.n <= 0 THEN DefaultLimit
                        ELSE IF n.n > MaxLimit THEN MaxLimit ELSE n.n

\* C9: the skip the listing uses is a non-negative integer: absent, non-numeric or
\* negative it is the default 0.
C9_SkipNonNegative ==
    lreq.phase # "idle" =>
        LET n == ParseInt(lreq.query.skip) IN
        /\ lreq.skip >= 0
        /\ lreq.skip = IF n.nan \/ n.n < 0 THEN DefaultSkip ELSE n.n

\* C10: a listing returns records newest first, no record twice, at most `limit` of
\* them; when no write lands while it is served, they are the records that follow
\* the first `skip` of a newest-first order of the whole store, as many as the limit
\* allows, and total is the number of all stored records, those older than 24h
\* included.
C10_ListingSortedPagedCounted ==
    (lreq.phase = "done" /\ ~lreq.storeFailed) =>
        LET logs == lreq.logs
            n == Len(logs)
            rest == IF Cardinality(store) > lreq.skip
                    THEN Cardinality(store) - lreq.skip ELSE 0
        IN  /\ lreq.status = 200
            /\ \A i, j \in 1..n : i < j => logs[i].timestamp >= logs[j].timestamp
            /\ \A i, j \in 1..n : i < j => logs[i] # logs[j]
            /\ n <= lreq.limit
            /\ RangeOf(logs) \subseteq store
            /\ lreq.total <= Cardinality(store)
            /\ ~lreq.dirty =>
                  /\ lreq.total = Cardinality(store)
                  /\ \E order \in SortedOrders(store) :
                        /\ \A i \in 1..n : lreq.skip + i <= Len(order)
                                             /\ logs[i] = order[lreq.skip + i]
                  /\ n = Min(lreq.limit, rest)

\* The records held by the store, carried by an event, or returned by the listing.
RecordsOut == store \cup RangeOf(emitted) \cup RangeOf(lreq.logs)

\* C11: every record stored, broadcast or listed has is_anomaly and model_used as
\* booleans equal to the truthiness of the value posted (false for undefined, null,
\* false, 0 and ''; true for anything else), anomaly_score equal to the value posted,
\* or 0 when that was absent or null, and `log` equal to the value posted.
C11_RoundTripCoercion ==
    \A d \in RecordsOut :
        LET p == posts[d.id].payload
            falsy == {"undefined", "null", "false", "0", "''"}
        IN  /\ d.is_anomaly \in BOOLEAN
            /\ d.is_anomaly = (p.is_anomaly \notin falsy)
            /\ d.model_used \in BOOLEAN
            /\ d.model_used = (p.model_used \notin falsy)
            /\ d.anomaly_score = IF p.anomaly_score \in {"undefined", "null"} THEN "0"
                                  ELSE p.anomaly_score
            /\ d.log = p.log

\* C12: every statistics response is as if computed on one snapshot of the store,
\* also when writes land between its three queries: anomalies is at most total, the
\* list of recent anomalies has min(anomalies, 100) entries, and the threat level is
\* none only when anomalies is 0.
C12_StatsOneSnapshot ==
    (sreq.phase = "done" /\ sreq.status = 200) =>
        /\ sreq.anomalies <= sreq.total
        /\ Len(sreq.recentAnomalies) = Min(sreq.anomalies, RecentLimit)
        /\ sreq.threatLevel = "none" => sreq.anomalies = 0

\* The ids of the records in the dashboard's list, in the order of the list.
ClientIds == [i \in 1..Len(client.logs) |-> client.logs[i].id]

\* Every request is answered, the dashboard is on the page with its socket
\* connected, the fetch was answered 200 and its response applied, and every event
\* emitted since the socket connected is delivered.
ClientSettled ==
    /\ InFlight = 0
    /\ client.phase = "mounted"
    /\ client.socket = "connected"
    /\ client.fetch = "ok"
    /\ client.delivered = Len(emitted)

\* C13: fewer than 50 records, a dashboard that connected at load and stays connected:
\* once the fetch response and every event are delivered, the dashboard's list holds
\* every stored record exactly once, whatever the interleaving.
C13_FeedCompleteNoDuplicates ==
    ClientSettled =>
        /\ \A i, j \in 1..Len(ClientIds) : i < j => ClientIds[i] # ClientIds[j]
        /\ RangeOf(ClientIds) = {d.id : d \in store}

====
